---- MODULE Spec2Model ----
(***************************************************************************)
(* Model of the two demos of the repository:                               *)
(*   solarization/python/solarization.py                                   *)
(*   orientation_histograms/python/orientation_histograms.py               *)
(*                                                                         *)
(* Arithmetic convention.  Python floats are modelled as exact rationals:  *)
(* rounding error of IEEE doubles is not represented.  A value of the tone *)
(* curve is kept as a record                                               *)
(*     [cls, lo, fn, fd]                                                   *)
(* where floor(f) < 0, 0 <= floor(f) <= 255 or floor(f) > 255 according to *)
(* cls = -1, 0, 1; lo = floor(f) mod 256; and fn/fd = f - floor(f).  The   *)
(* integer part of a curve value can exceed 32 bits, which is why only its *)
(* class and its low byte are kept: they are all that the preview path and *)
(* the conversion to uint8 read.                                           *)
(***************************************************************************)
EXTENDS Integers, Sequences, FiniteSets, TLC

-----------------------------------------------------------------------------
(* Program constants of solarization.py *)

\* PolynomialSelectionWidget.SIZE (width = height)
SIZE == 512

\* ExtremumSelector.RADIUS
RADIUS == 10

\* the literal 256 of SIZE.width() // 256, range(0, 256) and uint8
LEVELS == 256

\* the substitute for dx == 0 (0.001), as the rational 1 / EPSILON_DEN
EPSILON_DEN == 1000

None == <<>>

Abs(n) == IF n < 0 THEN -n ELSE n

Sign(n) == IF n < 0 THEN -1 ELSE IF n > 0 THEN 1 ELSE 0

Min(a, b) == IF a < b THEN a ELSE b

Max(a, b) == IF a > b THEN a ELSE b

-----------------------------------------------------------------------------
(* Exact arithmetic helpers *)

\* quotient and remainder of a * b by n (a >= 0, 0 <= b < n), computed bit by
\* bit of a so that no intermediate value leaves 32 bits
RECURSIVE MulDiv(_, _, _)
MulDiv(a, b, n) ==
    IF a = 0 THEN [q |-> 0, r |-> 0]
    ELSE LET h == MulDiv(a \div 2, b, n)
             v == 2 * h.r + (a % 2) * b
         IN  [q |-> 2 * h.q + (v \div n), r |-> v % n]

\* a natural number that may not fit 32 bits, kept as its value saturated at
\* WideCap and its low byte
WideCap == 64 * 64

Wide(n) == [sat |-> Min(n, WideCap), lo |-> n % LEVELS]

\* the curve value h + s * (A * qB + q0) + g / gd, where A, q0 >= 0 are
\* integers, qB is a Wide number and gd > 0
WideValue(h, s, A, qB, q0, g, gd) ==
    LET Ksat == Min(A * qB.sat + q0, WideCap)
        Klo  == ((A % LEVELS) * qB.lo + q0) % LEVELS
        c    == g \div gd
        fls  == h + s * Ksat + c
    IN  [cls |-> IF fls < 0 THEN -1 ELSE IF fls > LEVELS - 1 THEN 1 ELSE 0,
         lo  |-> (h + s * Klo + c) % LEVELS,
         fn  |-> g % gd,
         fd  |-> gd]

-----------------------------------------------------------------------------
(* PolynomialSelectionWidget._updatePolynomial: the curve fit *)

\* ExtremumSelector.extremum(): the centre of a handle whose top-left is pos
extremum(pos) == <<pos[1] + RADIUS, pos[2] + RADIUS>>

\* extremum().x() // (SIZE.width() // 256), the same for y
ToLevel(coord) == coord \div (SIZE \div LEVELS)

\* Dx without the dx == 0. guard of lines 214-215
Dx_Unguarded(minX, maxX) == [n |-> maxX - minX, d |-> 1]

\* dx = maxX - minX; if dx == 0.: dx = 0.001      (a rational n / d)
Dx(minX, maxX) ==
    IF maxX - minX = 0 THEN [n |-> 1, d |-> EPSILON_DEN]
    ELSE [n |-> maxX - minX, d |-> 1]

\* X0 taken at the minimum instead of the midpoint
X0_AtMinimum(minX, maxX) == [n |-> 2 * minX, d |-> 2]

\* x0 = (minX + maxX) / 2      (a rational n / d)
X0(minX, maxX) == [n |-> minX + maxX, d |-> 2]

\* the values the lambda of line 225 closes over.  a, b and c are fractions
\* of dy, dx, x0 and ymid = (minY + maxY) / 2:
\*     a = -2 dy / dx^3,   b = -3 dy / (2 dx),   c = ymid + b x0
\* zdiv records that dx**3 or 2. * dx is 0., where the division raises.
Fit(minX, minY, maxX, maxY) ==
    LET dx == Dx(minX, maxX)
    IN  [dx   |-> dx,
         dy   |-> maxY - minY,
         x0   |-> X0(minX, maxX),
         ymid |-> [n |-> minY + maxY, d |-> 2],
         zdiv |-> dx.n = 0]

\* the lambda of line 225 at x = x2 / 2:   a (x - x0)^3 - b x + c.
\* With u = 2 (x - x0) = x2 - x0.n:
\*     a (x - x0)^3    = -dy u^3 / (4 dx^3)
\*     -b x + c        = ymid - b (x - x0) = ymid + 3 dy u / (4 dx)
\*     f(x)            = ymid + dy (3 u dx^2 - u^3) / (4 dx^3)
\* For dx = n / 1 the fraction is dy * M / Dn with M = U (3 D^2 - U^2),
\* Dn = 4 D^3, D = |n|, U = u sign(n).  For dx = 1 / d it is the integer
\* -dy u ((d^3 / 4) u^2 - 3 d / 4).
Polynomial(p, x2) ==
    LET u == x2 - p.x0.n
        h == p.ymid.n \div 2
        e == p.ymid.n % 2
    IN  IF p.dx.d = 1
        THEN LET D  == Abs(p.dx.n)
                 U  == u * Sign(p.dx.n)
                 M  == U * (3 * D * D - U * U)
                 Dn == 4 * D * D * D
                 s  == Sign(p.dy) * Sign(M)
                 A  == Abs(p.dy)
                 md == MulDiv(A, Abs(M) % Dn, Dn)
             IN  WideValue(h, s, A, Wide(Abs(M) \div Dn), md.q,
                           e * Dn + s * 2 * md.r, 2 * Dn)
        ELSE LET d   == p.dx.d
                 d34 == (d \div 2) * (d \div 2) * d
                 qB  == IF u = 0 THEN Wide(0)
                        ELSE [sat |-> WideCap,
                              lo  |-> ((d34 % LEVELS) * ((u * u) % LEVELS)
                                        - 3 * (d \div 4)) % LEVELS]
             IN  WideValue(h, -Sign(p.dy * u), Abs(p.dy * u), qB, 0, e, 2)

\* the first x of lo .. hi with yScaled < SIZE.height(), or LEVELS when
\* there is none (found by halving the range, to keep the recursion shallow)
RECURSIVE FirstReachedIn(_, _, _)
FirstReachedIn(p, lo, hi) ==
    IF lo = hi
    THEN IF Polynomial(p, 2 * lo).cls <= 0 THEN lo ELSE LEVELS
    ELSE LET mid   == (lo + hi) \div 2
             first == FirstReachedIn(p, lo, mid)
         IN  IF first # LEVELS THEN first ELSE FirstReachedIn(p, mid + 1, hi)

\* the x of range(0, 256) at which the loop of lines 232-247 creates the
\* path; LEVELS when it never does
FirstReached(p) == FirstReachedIn(p, 0, LEVELS - 1)

\* conversion of a curve value to np.uint8 (np.vectorize(p, otypes=[np.uint8])):
\* the float is truncated toward zero and the integer keeps its low 8 bits
AsUint8(v) ==
    (v.lo + (IF v.cls < 0 /\ v.fn > 0 THEN 1 ELSE 0)) % LEVELS

-----------------------------------------------------------------------------
(* State *)

VARIABLES
    selector,     \* _minimumSelector / _maximumSelector: pos, _lastMouseEventPos,
                  \* _mouseOutsideScene
    polynomial,   \* PolynomialSelectionWidget._polynomial
    path,         \* _polynomialGraphicsPathItem's path: the x of its first point,
                  \* -1 for the empty path of a new item
    mat,          \* SolarizationMainWindow._mat
    shown,        \* the pixels of _graphicsPixmapItem's pixmap
    event,        \* the last event delivered and the slots it ran, in order
    exc,          \* the exception handed to sys.excepthook, or "None"
    grab,         \* the handle holding the pressed mouse button, or "none"
    moves         \* number of move events delivered so far

guiVars == <<selector, polynomial, path, mat, shown, event, exc, grab, moves>>

\* solarization.py, __main__
VARIABLES
    args,         \* the parsed arguments: interactive, low, high
    file,         \* what cv.imread returns for args.image: an image or None
    pc,           \* position in __main__: "validate", "imread", "start",
                  \* "exec" (inside app.exec()) or "exit"
    exitStatus,   \* <<status>> once the process has exited, else None
    stderr        \* the message printed to sys.stderr, or None

cliVars == <<args, file, pc, exitStatus, stderr>>

\* orientation_histograms.py
VARIABLES
    bins,               \* GradientHistogramWidget._bins
    gradientMagnitude,  \* GradientHistogramWidget._gradientMagnitude
    gradientPhase,      \* GradientHistogramWidget._gradientPhase
    angles,             \* the bar positions of the last _updateHistogram
    sums,               \* the bar heights of the last _updateHistogram
    plotted,            \* number of bar containers on the axes
    viewInput,          \* the mat last given to TitledViewWidget.updateImage
    gray,               \* what matToGrayscale returned for it, or None
    histExc             \* the exception raised by the last call, or "None"

histVars == <<bins, gradientMagnitude, gradientPhase, angles, sums, plotted,
              viewInput, gray, histExc>>

vars == <<guiVars, cliVars, histVars>>

Handles == {"minimum", "maximum"}

\* the window state the slots read and write, as one record
Gui == [selector |-> selector, polynomial |-> polynomial, path |-> path,
        mat |-> mat, shown |-> shown, calls |-> <<>>, exc |-> exc]

-----------------------------------------------------------------------------
(* Slots and signal connections *)

\* PolynomialSelectionWidget._updatePolynomial (lines 200-258)
UpdatePolynomial(g) ==
    LET mn    == extremum(g.selector["minimum"].pos)
        mx    == extremum(g.selector["maximum"].pos)
        p     == Fit(ToLevel(mn[1]), ToLevel(mn[2]), ToLevel(mx[1]), ToLevel(mx[2]))
        first == FirstReached(p)
        g1    == [g EXCEPT !.calls = Append(@, "_updatePolynomial")]
    IN  IF p.zdiv
        THEN [g1 EXCEPT !.exc = "ZeroDivisionError"]
        ELSE IF first = LEVELS
        THEN [g1 EXCEPT !.polynomial = p, !.exc = "UnboundLocalError"]
        ELSE [g1 EXCEPT !.polynomial = p, !.path = first * (SIZE \div LEVELS)]

\* p_vectorized(self._mat) of SolarizationMainWindow._updateSolarization
Solarized(p, m) == [i \in DOMAIN m |-> AsUint8(Polynomial(p, 2 * m[i]))]

\* UpdateSolarization applied to the displayed pixels instead of _mat
UpdateSolarization_Cumulative(g) ==
    [g EXCEPT !.shown = Solarized(g.polynomial, g.shown),
              !.calls = Append(@, "_updateSolarization")]

\* SolarizationMainWindow._updateSolarization and _updateMat (lines 308-317)
UpdateSolarization(g) ==
    [g EXCEPT !.shown = Solarized(g.polynomial, g.mat),
              !.calls = Append(@, "_updateSolarization")]

\* Connections with extremumChanged also wired to the pixel transform
Connections_EagerTransform(signal) ==
    CASE signal = "extremumChanged"   -> <<"_updatePolynomial", "_updateSolarization">>
      [] signal = "extremumFixed"     -> <<"polynomialChanged">>
      [] signal = "polynomialChanged" -> <<"_updateSolarization">>

\* the connect() calls of lines 175-181 and 285-286: what each signal runs
Connections(signal) ==
    CASE signal = "extremumChanged"   -> <<"_updatePolynomial">>
      [] signal = "extremumFixed"     -> <<"polynomialChanged">>
      [] signal = "polynomialChanged" -> <<"_updateSolarization">>

RECURSIVE Emit(_, _), RunSlots(_, _)
\* signal.emit(): runs the connected slots in connection order
Emit(signal, g) == RunSlots(Connections(signal), g)

RunSlots(slots, g) ==
    IF slots = <<>> THEN g
    ELSE LET slot == Head(slots)
             g1   == CASE slot = "_updatePolynomial"   -> UpdatePolynomial(g)
                       [] slot = "_updateSolarization" -> UpdateSolarization(g)
                       [] slot = "polynomialChanged"   -> Emit(slot, g)
         IN  RunSlots(Tail(slots), g1)

-----------------------------------------------------------------------------
(* Construction *)

\* INITIAL_MINIMUM_SELECTOR_POS / INITIAL_MAXIMUM_SELECTOR_POS (lines 33-37)
INITIAL_MINIMUM_SELECTOR_POS == <<SIZE \div 4 - 1, 3 * (SIZE \div 4) - 1>>

INITIAL_MAXIMUM_SELECTOR_POS == <<3 * (SIZE \div 4) - 1, SIZE \div 4 - 1>>

\* ExtremumSelector.__init__ followed by the move() of lines 183-189
NewSelector(initial) ==
    [pos |-> <<initial[1], initial[2] - RADIUS>>,
     lastMouseEventPos |-> None,
     mouseOutsideScene |-> FALSE]

\* the images the tool is started on (cv.imread(..., IMREAD_GRAYSCALE))
Images == {<<0, 68, 132, 255>>}

\* SolarizationMainWindow.__init__ with PolynomialSelectionWidget.__init__:
\* the window state after construction on image
ConstructedGui(image) ==
    LET sel == [h \in Handles |->
                   IF h = "minimum"
                   THEN NewSelector(INITIAL_MINIMUM_SELECTOR_POS)
                   ELSE NewSelector(INITIAL_MAXIMUM_SELECTOR_POS)]
    IN  UpdatePolynomial([selector |-> sel, polynomial |-> None,
                          path |-> -1, mat |-> image, shown |-> image,
                          calls |-> <<>>, exc |-> "None"])

\* the window variables hold the freshly built window g
GuiIs(g) ==
    /\ selector = g.selector
    /\ polynomial = g.polynomial
    /\ path = g.path
    /\ mat = g.mat
    /\ shown = g.shown
    /\ exc = g.exc
    /\ event = [type |-> "construct", handle |-> "none", calls |-> g.calls]
    /\ grab = "none"
    /\ moves = 0

\* no window exists
NoGui ==
    /\ selector = None
    /\ polynomial = None
    /\ path = -1
    /\ mat = None
    /\ shown = None
    /\ exc = "None"
    /\ event = [type |-> "none", handle |-> "none", calls |-> <<>>]
    /\ grab = "none"
    /\ moves = 0

-----------------------------------------------------------------------------
(* Mouse events on a handle (ExtremumSelector, lines 78-126).  Once an      *)
(* exception has reached sys.excepthook the windows are closed and no       *)
(* further event is delivered.                                              *)

\* bound on the number of move events of a run
MaxMoves == 3

\* pointer positions of the move events, in the coordinates of the view
\* (scene.mapFromGlobal(event.globalPos())); the pointer is grabbed during a
\* drag and can leave the 512 x 512 view
MouseXs == {-30, 385, SIZE}

MouseYs == {385, SIZE}

MousePoints == {<<x, y>> : x \in MouseXs, y \in MouseYs}

\* where inside the 20 x 20 handle the button is pressed
GrabOffsets == {<<RADIUS, RADIUS>>, <<4, 16>>}

\* sceneRect.contains(x, y) for the QRectF (0, 0, SIZE, SIZE): QRectF.contains
\* accepts the points of all four edges
SceneRectContains(pt) ==
    /\ 0 <= pt[1] /\ pt[1] <= SIZE
    /\ 0 <= pt[2] /\ pt[2] <= SIZE

\* the position the handle is moved to for newPos (lines 100-113), with the
\* new value of _mouseOutsideScene.  sceneRect.width() is the float 512.0, so
\* a coordinate clamped at maxPos reaches move() as the float 501.0, taken
\* here as the integer 501.
Moved(newPos) ==
    IF SceneRectContains(<<newPos[1] + RADIUS, newPos[2] + RADIUS>>)
    THEN [pos |-> newPos, outside |-> FALSE]
    ELSE LET minPos == -RADIUS
             maxPos == SIZE - RADIUS - 1
         IN  [pos |-> <<Max(Min(newPos[1], maxPos), minPos),
                        Max(Min(newPos[2], maxPos), minPos)>>,
              outside |-> TRUE]

Deliver(type, h, g) ==
    /\ selector' = g.selector
    /\ polynomial' = g.polynomial
    /\ path' = g.path
    /\ mat' = g.mat
    /\ shown' = g.shown
    /\ exc' = g.exc
    /\ event' = [type |-> type, handle |-> h, calls |-> g.calls]

\* mousePressEvent (lines 78-82)
MousePressEvent(h) ==
    /\ exc = "None"
    /\ grab = "none"
    /\ \E off \in GrabOffsets :
          LET m == <<selector[h].pos[1] + off[1], selector[h].pos[2] + off[2]>>
          IN  /\ m[1] \in 0 .. SIZE - 1
              /\ m[2] \in 0 .. SIZE - 1
              /\ Deliver("press", h,
                     [Gui EXCEPT !.selector[h].lastMouseEventPos = m,
                                 !.selector[h].mouseOutsideScene = FALSE])
    /\ grab' = h
    /\ UNCHANGED moves

\* mouseMoveEvent (lines 84-119)
MouseMoveEvent(h) ==
    /\ exc = "None"
    /\ grab = h
    /\ moves < MaxMoves
    /\ \E m \in MousePoints :
          LET s == selector[h]
          IN  IF s.mouseOutsideScene /\ ~SceneRectContains(m)
              THEN Deliver("move", h, Gui)
              ELSE LET delta  == <<m[1] - s.lastMouseEventPos[1],
                                   m[2] - s.lastMouseEventPos[2]>>
                       newPos == <<s.pos[1] + delta[1], s.pos[2] + delta[2]>>
                       mv     == Moved(newPos)
                       g      == [Gui EXCEPT
                                     !.selector[h].pos = mv.pos,
                                     !.selector[h].mouseOutsideScene = mv.outside,
                                     !.selector[h].lastMouseEventPos = m]
                   IN  Deliver("move", h, Emit("extremumChanged", g))
    /\ moves' = moves + 1
    /\ UNCHANGED grab

\* mouseReleaseEvent (lines 121-126)
MouseReleaseEvent(h) ==
    /\ exc = "None"
    /\ grab = h
    /\ Deliver("release", h,
           Emit("extremumFixed",
                [Gui EXCEPT !.selector[h].lastMouseEventPos = None]))
    /\ grab' = "none"
    /\ UNCHANGED moves

GuiNext ==
    \/ \E h \in Handles : MousePressEvent(h)
    \/ \E h \in Handles : MouseMoveEvent(h)
    \/ \E h \in Handles : MouseReleaseEvent(h)

-----------------------------------------------------------------------------
(* solarization.py, __main__ (lines 320-375) *)

\* values given to --low and --high
ArgValues == {0, 64, 192, 255}

Options == {None} \cup {<<v>> : v \in ArgValues}

MSG_NO_MODE == "Either --interactive or --low and --high must be specified"

MSG_BOTH_MODES == "--interactive and --low/--high may not be used together"

MSG_IMREAD == "Failed to read input image"

\* the conditions of lines 338-347 under which sys.exit(1) is reached, with
\* the message printed; None when validation passes.
\* Line 344 is  not args.low is None and args.high is None,  which Python
\* reads as  (args.low is not None) and (args.high is None).
ValidationError(a) ==
    IF ~a.interactive
    THEN IF a.low = None \/ a.high = None THEN <<MSG_NO_MODE>> ELSE None
    ELSE IF (~(a.low = None)) /\ a.high = None THEN <<MSG_BOTH_MODES>> ELSE None

SysExit(status, message) ==
    /\ pc' = "exit"
    /\ exitStatus' = <<status>>
    /\ stderr' = message

\* lines 338-347
Validate ==
    /\ pc = "validate"
    /\ IF ValidationError(args) # None
       THEN SysExit(1, ValidationError(args))
       ELSE pc' = "imread" /\ UNCHANGED <<exitStatus, stderr>>
    /\ UNCHANGED <<args, file, guiVars>>

\* lines 349-355
Imread ==
    /\ pc = "imread"
    /\ IF file = None
       THEN SysExit(1, <<MSG_IMREAD>>)
       ELSE pc' = "start" /\ UNCHANGED <<exitStatus, stderr>>
    /\ UNCHANGED <<args, file, guiVars>>

\* lines 357-375: the window is built and shown and app.exec() entered, or
\* (non-interactive mode, a stub) the script ends
Start ==
    /\ pc = "start"
    /\ IF args.interactive
       THEN /\ Deliver("construct", "none", ConstructedGui(file))
            /\ pc' = "exec"
            /\ UNCHANGED <<exitStatus, stderr, grab, moves>>
       ELSE /\ SysExit(0, None)
            /\ UNCHANGED guiVars
    /\ UNCHANGED <<args, file>>

InitCli ==
    /\ args \in [interactive : BOOLEAN, low : Options, high : Options]
    /\ file \in Images \cup {None}
    /\ pc = "validate"
    /\ exitStatus = None
    /\ stderr = None
    /\ NoGui

\* __main__ has reached app.exec() in interactive mode
CliExec ==
    /\ args = [interactive |-> TRUE, low |-> None, high |-> None]
    /\ file = mat
    /\ pc = "exec"
    /\ exitStatus = None
    /\ stderr = None

CliNext == Validate \/ Imread \/ Start

-----------------------------------------------------------------------------
(* orientation_histograms.py *)

\* GradientHistogramWidget.DEFAULT_BINS
DEFAULT_BINS == 20

\* bounds: bin counts given to setBins, bar containers drawn in a run, size
\* of the last axis of a mat
MaxBins == 4

MaxPlots == 3

MaxChannels == 4

\* A mat is described by its dtype and its shape; pixel values of the images
\* given to matToGrayscale are not represented.
Dtypes == {"uint8", "uint16", "float32", "float64"}

Shapes ==
    {<<2>>, <<2, 2>>}
        \cup {<<2, 2, c>> : c \in 1 .. MaxChannels}
        \cup {<<2, 2, c, 1>> : c \in 1 .. MaxChannels}

Mats == [dtype : Dtypes, shape : Shapes]

\* matToGrayscale with the float64 branch taken for any number of channels
MatToGrayscale_AnyFloat(m) ==
    IF m.dtype = "uint8"
    THEN IF Len(m.shape) = 2 THEN <<m>>
         ELSE IF Len(m.shape) = 3 /\ m.shape[3] = 1 THEN <<m>>
         ELSE IF Len(m.shape) = 3 /\ m.shape[3] = 3
              THEN <<[dtype |-> "uint8", shape |-> SubSeq(m.shape, 1, 2)]>>
         ELSE None
    ELSE IF m.dtype = "float64"
    THEN IF Len(m.shape) = 2 \/ Len(m.shape) = 3
         THEN <<[dtype |-> "uint8", shape |-> m.shape]>>
         ELSE None
    ELSE None

\* matToGrayscale (lines 14-31): <<image>> when it returns, None when it
\* raises ValueError("unsupported image type for grayscale conversion")
MatToGrayscale(m) ==
    IF m.dtype = "uint8"
    THEN IF Len(m.shape) = 2 THEN <<m>>
         ELSE IF Len(m.shape) = 3 /\ m.shape[3] = 1 THEN <<m>>
         ELSE IF Len(m.shape) = 3 /\ m.shape[3] = 3
              THEN <<[dtype |-> "uint8", shape |-> SubSeq(m.shape, 1, 2)]>>
         ELSE None
    ELSE IF m.dtype = "float64"
    THEN IF Len(m.shape) = 2 \/ (Len(m.shape) = 3 /\ m.shape[3] = 1)
         THEN <<[dtype |-> "uint8", shape |-> m.shape]>>
         ELSE None
    ELSE None

\* matToPixmap(matToGrayscale(mat)) of TitledViewWidget (lines 67, 84): the
\* exception raised, or "None"; matToPixmap asserts len(mat.shape) == 2
ViewException(m) ==
    IF MatToGrayscale(m) = None THEN "ValueError"
    ELSE IF Len(MatToGrayscale(m)[1].shape) # 2 THEN "AssertionError"
    ELSE "None"

\* np.linspace(0, np.pi, num), in units of pi: num samples from 0 to pi with
\* both ends included (endpoint=True is the default); [0] for num = 1
Linspace(num) ==
    IF num = 1 THEN <<[n |-> 0, d |-> 1]>>
    ELSE [i \in 1 .. num |-> [n |-> i - 1, d |-> num - 1]]

\* phases are multiples of pi / PHASE_DEN and weights are in units of
\* 1 / COS_SCALE
PHASE_DEN == 4

COS_SCALE == 1000

\* np.abs(np.cos(phase - angle)) in fixed point.  The argument is reduced to
\* r pi with 0 <= r <= 1/2 and cos(r pi) is taken as (1 - 4 r^2) / (1 + r^2).
\* The result is at least one unit: no double is a zero of cos.
CosAbs(phase, angle) ==
    LET den == PHASE_DEN * angle.d
        num == (phase * angle.d - PHASE_DEN * angle.n) % den
        r   == IF 2 * num > den THEN den - num ELSE num
    IN  Max(1, (COS_SCALE * (den * den - 4 * r * r)) \div (den * den + r * r))

RECURSIVE SeqSum(_)
SeqSum(q) == IF q = <<>> THEN 0 ELSE Head(q) + SeqSum(Tail(q))

\* GradientHistogramWidget._updateHistogram (lines 165-175): the sample
\* angles and the normalised sums.  A sum is the fraction n / d; 0 / 0 is the
\* NaN numpy stores for sums /= sums.sum() when the total is zero.
UpdateHistogram(n, magnitude, phase) ==
    LET a     == Linspace(n)
        raw   == [i \in DOMAIN a |->
                     SeqSum([k \in DOMAIN phase |->
                                CosAbs(phase[k], a[i]) * magnitude[k]])]
        total == SeqSum(raw)
    IN  [angles |-> a,
         sums   |-> [i \in DOMAIN a |->
                        [n |-> raw[i], d |-> total, nan |-> total = 0]]]

\* gradient fields (magnitude, phase per pixel) handed to the widget; the
\* first is the field of a constant image
GradientFields ==
    {[magnitude |-> <<0, 0>>, phase |-> <<0, 0>>],
     [magnitude |-> <<3, 0>>, phase |-> <<2, 0>>],
     [magnitude |-> <<3, 4>>, phase |-> <<2, 5>>],
     [magnitude |-> <<1, 1>>, phase |-> <<0, 4>>]}

Plot(n, field) ==
    LET h == UpdateHistogram(n, field.magnitude, field.phase)
    IN  /\ bins' = n
        /\ gradientMagnitude' = field.magnitude
        /\ gradientPhase' = field.phase
        /\ angles' = h.angles
        /\ sums' = h.sums
        /\ plotted' = plotted + 1

\* GradientHistogramWidget.setBins (lines 151-154)
SetBins(n) ==
    /\ histExc = "None"
    /\ plotted < MaxPlots
    /\ Plot(n, [magnitude |-> gradientMagnitude, phase |-> gradientPhase])
    /\ UNCHANGED <<viewInput, gray, histExc>>

\* GradientHistogramWidget.setGradient (lines 156-163)
SetGradient(field) ==
    /\ histExc = "None"
    /\ plotted < MaxPlots
    /\ Plot(bins, field)
    /\ UNCHANGED <<viewInput, gray, histExc>>

\* TitledViewWidget.updateImage (lines 83-85)
UpdateImage(m) ==
    /\ histExc = "None"
    /\ viewInput' = m
    /\ gray' = MatToGrayscale(m)
    /\ histExc' = ViewException(m)
    /\ UNCHANGED <<bins, gradientMagnitude, gradientPhase, angles, sums, plotted>>

\* OrientationHistogramsMainWindow.__init__ on an image read by cv.imread
\* (8-bit, 3 channels) whose gradient is field
InitHist ==
    \E field \in GradientFields :
        LET m == [dtype |-> "uint8", shape |-> <<2, 2, 3>>]
            h == UpdateHistogram(DEFAULT_BINS, field.magnitude, field.phase)
        IN  /\ bins = DEFAULT_BINS
            /\ gradientMagnitude = field.magnitude
            /\ gradientPhase = field.phase
            /\ angles = h.angles
            /\ sums = h.sums
            /\ plotted = 1
            /\ viewInput = m
            /\ gray = MatToGrayscale(m)
            /\ histExc = ViewException(m)

\* the histogram demo is not running
NoHist ==
    /\ bins = 0
    /\ gradientMagnitude = None
    /\ gradientPhase = None
    /\ angles = None
    /\ sums = None
    /\ plotted = 0
    /\ viewInput = None
    /\ gray = None
    /\ histExc = "None"

HistNext ==
    \/ \E n \in 1 .. MaxBins : SetBins(n)
    \/ \E field \in GradientFields : SetGradient(field)
    \/ \E m \in Mats : UpdateImage(m)

-----------------------------------------------------------------------------
(* Specifications *)

\* the solarization tool in interactive mode, from the constructed window
Init == (\E image \in Images : GuiIs(ConstructedGui(image))) /\ CliExec /\ NoHist

Next == GuiNext /\ UNCHANGED <<cliVars, histVars>>

Spec == Init /\ [][Next]_vars

\* __main__ of the solarization tool, from the parsed arguments
NextCli == CliNext /\ UNCHANGED histVars

InitMain == InitCli /\ NoHist

SpecCli == InitMain /\ [][NextCli]_vars

\* the orientation-histogram demo, from the constructed window
NextHist == HistNext /\ UNCHANGED <<guiVars, cliVars>>

InitHistMain ==
    /\ InitHist /\ NoGui
    /\ args = None /\ file = None /\ pc = "none"
    /\ exitStatus = None /\ stderr = None

SpecHist == InitHistMain /\ [][NextHist]_vars

-----------------------------------------------------------------------------
(* The curve fit over a grid of control points *)

\* handle centres the fit is started from: levels 0, 64, 192 and 255
FitCentres == {0, 128, 385, SIZE - 1}

\* the window after its handles were dragged to centres of the grid, with one
\* more move event to come
InitFitGui ==
    \E mn \in FitCentres \X FitCentres, mx \in FitCentres \X FitCentres,
       image \in Images :
        LET sel == [h \in Handles |->
                       [pos |-> IF h = "minimum"
                                THEN <<mn[1] - RADIUS, mn[2] - RADIUS>>
                                ELSE <<mx[1] - RADIUS, mx[2] - RADIUS>>,
                        lastMouseEventPos |-> None,
                        mouseOutsideScene |-> FALSE]]
            g   == UpdatePolynomial([selector |-> sel, polynomial |-> None,
                                     path |-> -1, mat |-> image,
                                     shown |-> image, calls |-> <<>>,
                                     exc |-> "None"])
        IN  /\ selector = g.selector
            /\ polynomial = g.polynomial
            /\ path = g.path
            /\ mat = g.mat
            /\ shown = g.shown
            /\ exc = g.exc
            /\ event = [type |-> "construct", handle |-> "none", calls |-> g.calls]
            /\ grab = "none"
            /\ moves = MaxMoves - 1

InitFit == InitFitGui /\ CliExec /\ NoHist

SpecFit == InitFit /\ [][Next]_vars


-----------------------------------------------------------------------------
(* Control points, in pixel-value space *)

minX == ToLevel(extremum(selector["minimum"].pos)[1])

minY == ToLevel(extremum(selector["minimum"].pos)[2])

maxX == ToLevel(extremum(selector["maximum"].pos)[1])

maxY == ToLevel(extremum(selector["maximum"].pos)[2])

InLevelRange == {minX, minY, maxX, maxY} \subseteq 0 .. LEVELS - 1

\* v is exactly the rational n / d (d = 1 or 2), a value of 0 .. 255
IsExactly(v, n, d) ==
    /\ v.cls = 0
    /\ v.lo = n \div d
    /\ v.fn * d = (n % d) * v.fd

\* clamp(round(f), 0, 255), rounding half to even
ClampRound(v) ==
    IF v.cls < 0 THEN 0
    ELSE IF v.cls > 0 THEN LEVELS - 1
    ELSE IF 2 * v.fn > v.fd \/ (2 * v.fn = v.fd /\ v.lo % 2 = 1)
         THEN Min(v.lo + 1, LEVELS - 1)
         ELSE v.lo

-----------------------------------------------------------------------------
(* Claims *)

\* C1: the whole-image transform _updateSolarization runs exactly once in a
\* release event and in no other event; a move event runs nothing but
\* _updatePolynomial (or nothing, when the pointer stays outside the scene).
C1_TransformOnlyOnRelease ==
    /\ event.type = "release" => event.calls = <<"_updateSolarization">>
    /\ event.type = "move" => event.calls \in {<<>>, <<"_updatePolynomial">>}
    /\ event.type \in {"press", "construct"} =>
           \A i \in DOMAIN event.calls : event.calls[i] # "_updateSolarization"

C1_Witness ==
    /\ event.type = "release"
    /\ moves >= 2
    /\ event.calls = <<"_updateSolarization">>
    /\ shown # mat

\* the combinations the claim admits: --interactive alone, or --low and
\* --high without --interactive
ExactlyOneMode(a) ==
    \/ a.interactive /\ a.low = None /\ a.high = None
    \/ ~a.interactive /\ a.low # None /\ a.high # None

\* C2: validation passes if and only if exactly one of --interactive and
\* (--low and --high) is chosen; every other combination exits with status 1
\* before the image is read or a window is built.
C2_ArgumentValidation ==
    pc # "validate" =>
        IF ExactlyOneMode(args)
        THEN stderr \notin {<<MSG_NO_MODE>>, <<MSG_BOTH_MODES>>}
        ELSE /\ pc = "exit"
             /\ exitStatus = <<1>>
             /\ stderr \in {<<MSG_NO_MODE>>, <<MSG_BOTH_MODES>>}
             /\ mat = None

\* C3: after a commit every displayed pixel is clamp(round(f(input)), 0, 255):
\* 0 where f(input) < 0 and 255 where f(input) > 255.
C3_ClampedTransform ==
    event.type = "release" =>
        \A i \in DOMAIN mat :
            shown[i] = ClampRound(Polynomial(polynomial, 2 * mat[i]))

\* C4: for control points in [0,255] with minX # maxX the fitted cubic takes
\* the value minY at minX, maxY at maxX and (minY + maxY) / 2 at
\* x0 = (minX + maxX) / 2.
C4_CubicInterpolates ==
    (exc = "None" /\ InLevelRange /\ minX # maxX) =>
        /\ IsExactly(Polynomial(polynomial, 2 * minX), minY, 1)
        /\ IsExactly(Polynomial(polynomial, 2 * maxX), maxY, 1)
        /\ IsExactly(Polynomial(polynomial, minX + maxX), minY + maxY, 2)

C4_Witness ==
    /\ exc = "None"
    /\ event.type = "move"
    /\ event.calls = <<"_updatePolynomial">>
    /\ <<minX, minY>> = <<64, 64>>
    /\ <<maxX, maxY>> = <<192, 192>>

\* C5: when both control points have the same x, the fit divides by the
\* substitute 1/1000 and never by zero, so no division raises and the curve
\* is defined at every level.
C5_NoDivisionByZero ==
    /\ exc # "ZeroDivisionError"
    /\ minX = maxX =>
           /\ polynomial.dx = [n |-> 1, d |-> EPSILON_DEN]
           /\ ~polynomial.zdiv
           /\ \A x \in 0 .. LEVELS - 1 :
                  Polynomial(polynomial, 2 * x).fd > 0

C5_Witness ==
    /\ exc = "None"
    /\ event.type = "move"
    /\ event.calls = <<"_updatePolynomial">>
    /\ InLevelRange
    /\ minX = maxX
    /\ minY # maxY

\* C6: the histogram is evaluated at exactly n angles i * pi / n, i = 0..n-1;
\* pi itself is not a sample.
C6_AnglesExcludePi ==
    /\ Len(angles) = bins
    /\ \A i \in DOMAIN angles :
           /\ angles[i].n * bins = (i - 1) * angles[i].d
           /\ angles[i].n # angles[i].d

\* C7: when every weight is zero the histogram is n finite values, all zero
\* or all 1/n.
C7_ZeroGradientGuarded ==
    SeqSum(gradientMagnitude) = 0 =>
        /\ Len(sums) = bins
        /\ \A i \in DOMAIN sums : ~sums[i].nan
        /\ \/ \A i \in DOMAIN sums : sums[i].n = 0
           \/ \A i \in DOMAIN sums : sums[i].n * bins = sums[i].d

\* number of channels of an image: 1 for a 2-D mat, the last axis of a 3-D
\* mat; 0 for a mat that is not an image
Channels(m) ==
    IF Len(m.shape) = 2 THEN 1
    ELSE IF Len(m.shape) = 3 THEN m.shape[3]
    ELSE 0

\* C8: matToGrayscale returns an image exactly for 8-bit input with 1 or 3
\* channels and for 64-bit float input with 1 channel; for every other input
\* it raises the unsupported-image-type ValueError and returns nothing.
C8_GrayscaleDispatch ==
    IF \/ viewInput.dtype = "uint8" /\ Channels(viewInput) \in {1, 3}
       \/ viewInput.dtype = "float64" /\ Channels(viewInput) = 1
    THEN gray # None /\ histExc # "ValueError"
    ELSE gray = None /\ histExc = "ValueError"

C8_Witness ==
    /\ viewInput = [dtype |-> "float64", shape |-> <<2, 2, 3>>]
    /\ gray = None
    /\ histExc = "ValueError"

\* C9: both control points stay in [0,255] x [0,255] of pixel-value space.
C9_ControlPointsInRange == InLevelRange

\* C10: _mat never changes; the displayed image is _mat until the first
\* commit, changes only in a commit, and after a commit is the current curve
\* applied to _mat.
C10_SourceImageKept ==
    /\ shown = mat
    /\ [][/\ mat' = mat
          /\ IF event'.type = "release"
             THEN shown' = Solarized(polynomial', mat)
             ELSE shown' = shown]_vars

C10_Witness ==
    /\ grab = "none"
    /\ moves = MaxMoves
    /\ shown # mat
    /\ shown = Solarized(polynomial, mat)
    /\ \E i \in DOMAIN mat : Polynomial(polynomial, 2 * mat[i]).cls # 0

\* C11: _updatePolynomial completes without error for every reachable pair
\* of control points: some x of 0..255 has f(x) * 2 < 512, so the preview
\* path is created before it is extended and set.
C11_PathAlwaysCreated ==
    /\ exc # "UnboundLocalError"
    /\ FirstReached(polynomial) # LEVELS

====
